---- MODULE Spec2Model ----
(***************************************************************************)
(* ThreadIDPool of queue.cpp: a FIFO list of integer ids guarded by one    *)
(* pthread mutex and one condition variable.  Caller threads execute       *)
(* getIndexBlocking and returnIndex one statement at a time; the main      *)
(* thread executes initializePool and destroyPool while no caller is       *)
(* inside the pool.                                                        *)
(***************************************************************************)
EXTENDS Integers, Sequences, FiniteSets, TLC

\* ---------------------------------------------------------------- bounds
MaxCap     == 2        \* largest n_thread passed to initializePool

\* ------------------------------------------------------- program constants
n_thread == 2          \* const int n_thread = 2;
\* callers active at once in main: omp_set_num_threads(n_thread) with two
\* nested levels, the threads that run tasks times the team of each loop
NumThreads == n_thread * n_thread

MaxHold    == MaxCap       \* most ids one caller holds at once (nested acquire)

Threads  == 1..NumThreads
NoThread == 0          \* owner field of an unlocked mutex
Ids(n)   == 0..(n - 1)

VARIABLES
  indexList,   \* std::list<int> indexList
  lock,        \* owner of Mutex_t lock, NoThread when unlocked
  pc,          \* per thread: the statement it executes next
  value,       \* per thread: local `value` of getIndexBlocking
  arg,         \* per thread: parameter `i` of returnIndex
  held,        \* per thread: ids the caller got and has not passed back
  capacity,    \* the n_thread given to the last initializePool
  phase,       \* "constructed", "ready", "destroyed"; "exiting" inside exit(1),
               \* "exit1" once the process ended with status 1, "crashed"
               \* once a signal killed it
  observing,   \* TRUE in runs that record the order of pops and pushes
  served,      \* recorded: ids in the order pop_front handed them out
  released,    \* recorded: ids in the order push_back took them back
  reported,    \* threads that printed "Error detected" (DIE), 0 for main
  todo         \* loop iterations of the demo workload not yet started

vars == <<indexList, lock, pc, value, arg, held, capacity, phase,
          observing, served, released, reported, todo>>

\* ------------------------------------------------------ list operations
\* indexList.front()
Front_Back(l) == l[Len(l)]
Front(l) == Head(l)

\* indexList.pop_front()
PopFront_Keep(l) == l
PopFront_All(l) == <<>>
PopFront(l) == Tail(l)

\* indexList.push_back(i)
PushBack_Front(l, i) == <<i>> \o l
PushBack_Guarded(l, i) ==
  IF i >= 0 /\ \A k \in 1..Len(l) : l[k] # i THEN Append(l, i) ELSE l
PushBack(l, i) == Append(l, i)

\* indexList.empty()
ListEmpty_Never(l) == FALSE
ListEmpty(l) == l = <<>>

\* indexList.clear()
ClearList_Keep(l) == l
ClearList(l) == <<>>

\* for (int i = 0; i < n_thread; i++) indexList.push_back(i);
RECURSIVE FillFrom(_, _, _)
FillFrom(l, i, n) == IF i < n THEN FillFrom(PushBack(l, i), i + 1, n) ELSE l

FillPool(l, n) == FillFrom(l, 0, n)

\* the record grows only in observing runs
LogAppend(log, x) == IF observing THEN Append(log, x) ELSE log

\* threads asleep inside pthread_cond_wait
Waiters == {t \in Threads : pc[t] = "g_wait"}

\* pthread_cond_signal: the sets of waiters one call may wake
SignalWake_Broadcast(ws) == {ws}
SignalWake_None(ws) == {{}}
SignalWake_Lowest(ws) ==
  IF ws = {} THEN {{}} ELSE {{CHOOSE w \in ws : \A v \in ws : w <= v}}
SignalWake(ws) == IF ws = {} THEN {{}} ELSE {{w} : w \in ws}

\* while (indexList.empty()) CondWait(...): where a woken thread continues
AfterWakePc_If == "g_front"
AfterWakePc == "g_test"

AllIdle == \A t \in Threads : pc[t] = "idle"

\* callers run between initializePool and destroyPool, and go on running
\* while another thread is inside exit(1)
PoolInUse == phase \in {"ready", "exiting"}

\* ------------------------------------------------------------ initial state
\* the global threadIDpool after static construction, no caller running
Init ==
  /\ indexList = <<>>
  /\ lock = NoThread
  /\ pc = [t \in Threads |-> "idle"]
  /\ value = [t \in Threads |-> -1]
  /\ arg = [t \in Threads |-> -1]
  /\ held = [t \in Threads |-> {}]
  /\ capacity = 0
  /\ phase = "constructed"
  /\ observing = FALSE
  /\ served = <<>>
  /\ released = <<>>
  /\ reported = {}
  /\ todo = 0

\* the same state in a run that records the order of pops and pushes
InitObserved ==
  /\ indexList = <<>>
  /\ lock = NoThread
  /\ pc = [t \in Threads |-> "idle"]
  /\ value = [t \in Threads |-> -1]
  /\ arg = [t \in Threads |-> -1]
  /\ held = [t \in Threads |-> {}]
  /\ capacity = 0
  /\ phase = "constructed"
  /\ observing = TRUE
  /\ served = <<>>
  /\ released = <<>>
  /\ reported = {}
  /\ todo = 0

\* ------------------------------------------------------------ lifecycle
\* ThreadIDPool::initializePool(n_thread): clear, fill, MutexInit, CondInit.
\* A new lifetime starts: ids callers kept from an earlier one are void and
\* the record of pops and pushes starts again.
initializePool(n) ==
  /\ indexList' = FillPool(ClearList(indexList), n)
  /\ lock' = NoThread
  /\ capacity' = n
  /\ phase' = "ready"
  /\ served' = <<>>
  /\ released' = <<>>
  /\ held' = [t \in Threads |-> {}]
  /\ UNCHANGED <<reported, todo, pc, value, arg, observing>>

\* thread_id_pool_initialize called before any parallel region
Initialize(n) ==
  /\ phase \in {"constructed", "destroyed"}
  /\ AllIdle
  /\ initializePool(n)

\* thread_id_pool_initialize called again with no teardown in between
InitializeAgain(n) ==
  /\ phase = "ready"
  /\ AllIdle
  /\ initializePool(n)

\* ThreadIDPool::destroyPool(), called once the parallel regions are over:
\* no caller is inside the pool, ids still checked out are dropped with it
destroyPool ==
  /\ phase = "ready"
  /\ AllIdle
  /\ indexList' = ClearList(indexList)
  /\ lock' = NoThread
  /\ phase' = "destroyed"
  /\ held' = [t \in Threads |-> {}]
  /\ UNCHANGED <<reported, todo, pc, value, arg, capacity, observing, served, released>>

\* ------------------------------------------------------ getIndexBlocking
\* a caller enters getIndexBlocking: int value = -1;
CallGet(t) ==
  /\ PoolInUse
  /\ pc[t] = "idle"
  /\ Cardinality(held[t]) < MaxHold
  /\ pc' = [pc EXCEPT ![t] = "g_lock"]
  /\ value' = [value EXCEPT ![t] = -1]
  /\ UNCHANGED <<reported, todo, indexList, lock, arg, held, capacity, phase, observing, served, released>>

\* a caller that holds no id enters getIndexBlocking
CallGetLeaf(t) ==
  /\ held[t] = {}
  /\ CallGet(t)

\* MutexLock(&lock);
GetLock_Barge(t) ==
  /\ pc[t] = "g_lock"
  /\ lock' = t
  /\ pc' = [pc EXCEPT ![t] = "g_test"]
  /\ UNCHANGED <<reported, todo, indexList, value, arg, held, capacity, phase, observing, served, released>>
GetLock(t) ==
  /\ pc[t] = "g_lock"
  /\ lock = NoThread
  /\ lock' = t
  /\ pc' = [pc EXCEPT ![t] = "g_test"]
  /\ UNCHANGED <<reported, todo, indexList, value, arg, held, capacity, phase, observing, served, released>>

\* while (indexList.empty()) CondWait(&pool_not_empty_condition, &lock);
GetTest_KeepLock(t) ==
  /\ pc[t] = "g_test"
  /\ IF ListEmpty(indexList)
       THEN pc' = [pc EXCEPT ![t] = "g_wait"]
       ELSE pc' = [pc EXCEPT ![t] = "g_front"]
  /\ UNCHANGED <<reported, todo, indexList, lock, value, arg, held, capacity, phase, observing, served, released>>
GetTest(t) ==
  /\ pc[t] = "g_test"
  /\ IF ListEmpty(indexList)
       THEN /\ lock' = NoThread
            /\ pc' = [pc EXCEPT ![t] = "g_wait"]
       ELSE /\ lock' = lock
            /\ pc' = [pc EXCEPT ![t] = "g_front"]
  /\ UNCHANGED <<reported, todo, indexList, value, arg, held, capacity, phase, observing, served, released>>

\* pthread_cond_wait returns with no signal (spurious wake-up)
SpuriousWake(t) ==
  /\ pc[t] = "g_wait"
  /\ pc' = [pc EXCEPT ![t] = "g_woken"]
  /\ UNCHANGED <<reported, todo, indexList, lock, value, arg, held, capacity, phase, observing, served, released>>

\* pthread_cond_wait re-acquires the mutex before it returns
GetReacquire(t) ==
  /\ pc[t] = "g_woken"
  /\ lock = NoThread
  /\ lock' = t
  /\ pc' = [pc EXCEPT ![t] = AfterWakePc]
  /\ UNCHANGED <<reported, todo, indexList, value, arg, held, capacity, phase, observing, served, released>>

\* the process is killed by a signal (SIGABRT, SIGSEGV): every thread ends
Crash ==
  /\ phase' = "crashed"
  /\ pc' = [u \in Threads |-> "exited"]
  /\ UNCHANGED <<reported, todo, indexList, lock, value, arg, held, capacity, observing, served, released>>

\* value = indexList.front(); indexList.pop_front();
\* (on an empty list both are undefined: the build may hand back any int and
\* go on with the list still empty, or abort inside pop_front)
GetFront(t) ==
  /\ pc[t] = "g_front"
  /\ \/ /\ indexList # <<>>
        /\ value' = [value EXCEPT ![t] = Front(indexList)]
        /\ indexList' = PopFront(indexList)
        /\ served' = LogAppend(served, value'[t])
        /\ pc' = [pc EXCEPT ![t] = "g_unlock"]
        /\ UNCHANGED <<reported, todo, lock, arg, held, capacity, phase, observing, released>>
     \/ /\ indexList = <<>>
        /\ \E v \in -1..MaxCap : value' = [value EXCEPT ![t] = v]
        /\ indexList' = indexList
        /\ served' = LogAppend(served, value'[t])
        /\ pc' = [pc EXCEPT ![t] = "g_unlock"]
        /\ UNCHANGED <<reported, todo, lock, arg, held, capacity, phase, observing, released>>
     \/ /\ indexList = <<>>
        /\ Crash

\* MutexUnlock(&lock); return value;
GetUnlock(t) ==
  /\ pc[t] = "g_unlock"
  /\ lock' = NoThread
  /\ held' = [held EXCEPT ![t] = held[t] \cup {value[t]}]
  /\ value' = [value EXCEPT ![t] = -1]
  /\ pc' = [pc EXCEPT ![t] = "idle"]
  /\ UNCHANGED <<reported, todo, indexList, arg, capacity, phase, observing, served, released>>

\* ------------------------------------------------------------ returnIndex
\* a caller enters returnIndex(i) with any int i
returnIndexCall(t, i) ==
  /\ PoolInUse
  /\ pc[t] = "idle"
  /\ arg' = [arg EXCEPT ![t] = i]
  /\ held' = [held EXCEPT ![t] = held[t] \ {i}]
  /\ pc' = [pc EXCEPT ![t] = "r_lock"]
  /\ UNCHANGED <<reported, todo, indexList, lock, value, capacity, phase, observing, served, released>>

\* PARALLEL_RETURN_THREAD_ID(i_thread): the caller passes back an id it holds
CallReturn_Leak(t, i) ==
  /\ i \in held[t]
  /\ phase = "ready"
  /\ pc[t] = "idle"
  /\ held' = [held EXCEPT ![t] = held[t] \ {i}]
  /\ UNCHANGED <<reported, todo, indexList, lock, pc, value, arg, capacity, phase, observing, served, released>>
CallReturn(t, i) ==
  /\ i \in held[t]
  /\ returnIndexCall(t, i)

\* the list as the release contract keeps it: ids of the pool, none twice
WellFormed(l) ==
  /\ \A k \in 1..Len(l) : l[k] \in Ids(capacity)
  /\ \A j, k \in 1..Len(l) : j # k => l[j] # l[k]

\* a caller that breaks the contract: any int, held or not, in range or not
\* (explored from a list that is still intact, one returnIndex at a time)
CallReturnAny(t, i) ==
  /\ WellFormed(indexList)
  /\ \A u \in Threads : pc[u] \notin {"r_lock", "r_push", "r_signal", "r_unlock"}
  /\ returnIndexCall(t, i)

\* MutexLock(&lock);
RetLock(t) ==
  /\ pc[t] = "r_lock"
  /\ lock = NoThread
  /\ lock' = t
  /\ pc' = [pc EXCEPT ![t] = "r_push"]
  /\ UNCHANGED <<reported, todo, indexList, value, arg, held, capacity, phase, observing, served, released>>

\* indexList.push_back(i);
RetPush(t) ==
  /\ pc[t] = "r_push"
  /\ indexList' = PushBack(indexList, arg[t])
  /\ released' = LogAppend(released, arg[t])
  /\ pc' = [pc EXCEPT ![t] = "r_signal"]
  /\ UNCHANGED <<reported, todo, lock, value, arg, held, capacity, phase, observing, served>>

\* CondSignal(&pool_not_empty_condition);
RetSignal(t) ==
  /\ pc[t] = "r_signal"
  /\ \E woken \in SignalWake(Waiters) :
       pc' = [u \in Threads |->
                IF u = t THEN "r_unlock"
                ELSE IF u \in woken THEN "g_woken" ELSE pc[u]]
  /\ UNCHANGED <<reported, todo, indexList, lock, value, arg, held, capacity, phase, observing, served, released>>

\* MutexUnlock(&lock);
RetUnlock(t) ==
  /\ pc[t] = "r_unlock"
  /\ lock' = NoThread
  /\ arg' = [arg EXCEPT ![t] = -1]
  /\ pc' = [pc EXCEPT ![t] = "idle"]
  /\ UNCHANGED <<reported, todo, indexList, value, held, capacity, phase, observing, served, released>>

\* ------------------------------------------------------------ specifications
\* one statement of thread t inside getIndexBlocking or returnIndex
PoolStep(t) ==
  \/ GetLock(t)
  \/ GetTest(t)
  \/ GetReacquire(t)
  \/ GetFront(t)
  \/ GetUnlock(t)
  \/ RetLock(t)
  \/ RetPush(t)
  \/ RetSignal(t)
  \/ RetUnlock(t)

\* callers that keep the release contract and may hold an id while acquiring
Next ==
  \/ \E n \in 1..MaxCap : Initialize(n)
  \/ destroyPool
  \/ \E t \in Threads : CallGet(t)
  \/ \E t \in Threads : \E i \in held[t] : CallReturn(t, i)
  \/ \E t \in Threads : SpuriousWake(t)
  \/ \E t \in Threads : PoolStep(t)

Spec == Init /\ [][Next]_vars

\* ---- callers of the demo discipline: acquire only while holding nothing
NextLeaf ==
  \/ \E n \in 1..MaxCap : Initialize(n)
  \/ destroyPool
  \/ \E t \in Threads : CallGetLeaf(t)
  \/ \E t \in Threads : \E i \in held[t] : CallReturn(t, i)
  \/ \E t \in Threads : SpuriousWake(t)
  \/ \E t \in Threads : PoolStep(t)

\* a thread inside the pool keeps running, a thread that contends for the
\* mutex gets it if it is free again and again, and a caller that holds an
\* id passes it back; nothing obliges a caller to start a getIndexBlocking
Fairness ==
  \A t \in Threads :
    /\ WF_vars(GetTest(t) \/ GetFront(t) \/ GetUnlock(t)
                 \/ RetPush(t) \/ RetSignal(t) \/ RetUnlock(t))
    /\ SF_vars(GetLock(t) \/ GetReacquire(t) \/ RetLock(t))
    /\ WF_vars(\E i \in held[t] : CallReturn(t, i))

FairSpec == Init /\ [][NextLeaf]_vars /\ Fairness

\* ---- observed runs: the order of pops and pushes is recorded
InGetBeforePop == {t \in Threads : pc[t] \in {"g_lock", "g_test", "g_wait", "g_woken", "g_front"}}

\* getIndexBlocking calls started since initializePool
Calls == Len(served) + Cardinality(InGetBeforePop)

\* the observed workload: at most 2 * n_thread calls per pool lifetime
CallGetObserved(t) ==
  /\ Calls < 2 * capacity
  /\ CallGetLeaf(t)

NextObserved ==
  \/ \E n \in 1..MaxCap : Initialize(n)
  \/ \E n \in 1..MaxCap : InitializeAgain(n)
  \/ destroyPool
  \/ \E t \in Threads : CallGetObserved(t)
  \/ \E t \in Threads : \E i \in held[t] : CallReturn(t, i)
  \/ \E t \in Threads : SpuriousWake(t)
  \/ \E t \in Threads : PoolStep(t)

ObservedSpec == InitObserved /\ [][NextObserved]_vars /\ Fairness

\* ---- callers that break the release contract
NextMisuse ==
  \/ \E n \in 1..MaxCap : Initialize(n)
  \/ destroyPool
  \/ \E t \in Threads : CallGetLeaf(t)
  \/ \E t \in Threads : \E i \in -1..capacity : CallReturnAny(t, i)
  \/ \E t \in Threads : SpuriousWake(t)
  \/ \E t \in Threads : PoolStep(t)

MisuseSpec == Init /\ [][NextMisuse]_vars

\* ---- runs in which a pthread call may return a non-zero error code
\* DIE(...): the two printf of the macro; control does not come back to the
\* statement after the failed call, exit(1) is the next statement
Die(t) ==
  /\ reported' = reported \cup {t}
  /\ pc' = [pc EXCEPT ![t] = "die"]

\* exit(1) of DIE, first part: exit runs the destructors of the objects of
\* static storage duration, here the global threadIDpool with its std::list,
\* while the other threads are still running
ExitDestroy(t) ==
  /\ pc[t] = "die"
  /\ phase = "ready"
  /\ phase' = "exiting"
  /\ indexList' = ClearList(indexList)
  /\ pc' = [pc EXCEPT ![t] = "exiting"]
  /\ UNCHANGED <<reported, todo, lock, value, arg, held, capacity, observing, served, released>>

\* exit(1) of DIE, second part: the process ends with status 1
ExitFinish(t) ==
  /\ pc[t] = "exiting"
  /\ phase' = "exit1"
  /\ pc' = [u \in Threads |-> "exited"]
  /\ UNCHANGED <<reported, todo, indexList, lock, value, arg, held, capacity, observing, served, released>>

\* another thread executes empty(), front()/pop_front() or push_back() on
\* the list that exit has destroyed, or calls exit a second time: undefined,
\* the process may be killed (it may also go on: the ordinary actions)
UseAfterExit(u) ==
  /\ phase = "exiting"
  /\ pc[u] \in {"g_test", "g_front", "r_push", "die"}
  /\ Crash

\* MutexLock: pthread_mutex_lock returns e != 0, the mutex is not acquired
MutexLockFail(t) ==
  /\ pc[t] \in {"g_lock", "r_lock"}
  /\ Die(t)
  /\ UNCHANGED <<todo, indexList, lock, value, arg, held, capacity, phase, observing, served, released>>

\* CondWait: pthread_cond_wait returns e != 0 at the call, the mutex stays
\* with the caller
CondWaitFail(t) ==
  /\ pc[t] = "g_test"
  /\ ListEmpty(indexList)
  /\ Die(t)
  /\ UNCHANGED <<todo, indexList, lock, value, arg, held, capacity, phase, observing, served, released>>

\* CondSignal: pthread_cond_signal returns e != 0, no waiter is woken
CondSignalFail(t) ==
  /\ pc[t] = "r_signal"
  /\ Die(t)
  /\ UNCHANGED <<todo, indexList, lock, value, arg, held, capacity, phase, observing, served, released>>

\* MutexUnlock: pthread_mutex_unlock returns e != 0, the mutex stays locked
MutexUnlockFail(t) ==
  /\ pc[t] \in {"g_unlock", "r_unlock"}
  /\ Die(t)
  /\ UNCHANGED <<todo, indexList, lock, value, arg, held, capacity, phase, observing, served, released>>

\* initializePool in which MutexInit or CondInit fails: the list is already
\* filled; main reports and exits while no caller is inside the pool
InitFail(n) ==
  /\ phase \in {"constructed", "destroyed"}
  /\ AllIdle
  /\ indexList' = FillPool(ClearList(indexList), n)
  /\ capacity' = n
  /\ held' = [t \in Threads |-> {}]
  /\ reported' = reported \cup {NoThread}
  /\ phase' = "exit1"
  /\ pc' = [u \in Threads |-> "exited"]
  /\ UNCHANGED <<todo, lock, value, arg, observing, served, released>>

\* destroyPool in which MutexDestroy or CondDestroy fails: the list is
\* already cleared
DestroyFail ==
  /\ phase = "ready"
  /\ AllIdle
  /\ indexList' = ClearList(indexList)
  /\ held' = [t \in Threads |-> {}]
  /\ reported' = reported \cup {NoThread}
  /\ phase' = "exit1"
  /\ pc' = [u \in Threads |-> "exited"]
  /\ UNCHANGED <<todo, lock, value, arg, capacity, observing, served, released>>

NextFail ==
  \/ \E n \in 1..MaxCap : Initialize(n)
  \/ \E n \in 1..MaxCap : InitFail(n)
  \/ destroyPool
  \/ DestroyFail
  \/ \E t \in Threads : CallGetLeaf(t)
  \/ \E t \in Threads : \E i \in held[t] : CallReturn(t, i)
  \/ \E t \in Threads : SpuriousWake(t)
  \/ \E t \in Threads : PoolStep(t)
  \/ \E t \in Threads : MutexLockFail(t)
  \/ \E t \in Threads : CondWaitFail(t)
  \/ \E t \in Threads : CondSignalFail(t)
  \/ \E t \in Threads : MutexUnlockFail(t)
  \/ \E t \in Threads : ExitDestroy(t)
  \/ \E t \in Threads : ExitFinish(t)
  \/ \E t \in Threads : UseAfterExit(t)

\* a thread that has printed the report goes on to exit(1), and exit ends
FailSpec ==
  /\ Init /\ [][NextFail]_vars /\ Fairness
  /\ \A t \in Threads : WF_vars(ExitDestroy(t)) /\ WF_vars(ExitFinish(t))

\* ---- the workload of main
NumTasks == 10         \* PARALLEL_TASK parallel_for_inside_task(k, k), k = 10..1
LoopLen  == 2 * 2      \* loop_id < 2 * 2

\* main before thread_id_pool_initialize: no loop iteration has started
InitDemo ==
  /\ indexList = <<>>
  /\ lock = NoThread
  /\ pc = [t \in Threads |-> "idle"]
  /\ value = [t \in Threads |-> -1]
  /\ arg = [t \in Threads |-> -1]
  /\ held = [t \in Threads |-> {}]
  /\ capacity = 0
  /\ phase = "constructed"
  /\ observing = FALSE
  /\ served = <<>>
  /\ released = <<>>
  /\ reported = {}
  /\ todo = NumTasks * LoopLen

\* thread_id_pool_initialize(n_thread);
DemoInitialize ==
  /\ phase = "constructed"
  /\ AllIdle
  /\ initializePool(n_thread)

\* a worker thread that is not inside an iteration starts the next one:
\* const int i_thread = PARALLEL_GET_THREAD_ID();
DemoIteration(t) ==
  /\ phase = "ready"
  /\ todo > 0
  /\ pc[t] = "idle"
  /\ held[t] = {}
  /\ todo' = todo - 1
  /\ pc' = [pc EXCEPT ![t] = "g_lock"]
  /\ value' = [value EXCEPT ![t] = -1]
  /\ UNCHANGED <<reported, indexList, lock, arg, held, capacity, phase, observing, served, released>>

\* PARALLEL_SYNC and the end of the parallel region: every iteration has
\* run to its end; then thread_id_pool_destroy();
DemoDestroy ==
  /\ todo = 0
  /\ \A t \in Threads : held[t] = {}
  /\ destroyPool

NextDemo ==
  \/ DemoInitialize
  \/ DemoDestroy
  \/ \E t \in Threads : DemoIteration(t)
  \/ \E t \in Threads : \E i \in held[t] : CallReturn(t, i)
  \/ \E t \in Threads : SpuriousWake(t)
  \/ \E t \in Threads : PoolStep(t)

\* main and the worker threads keep running
DemoSpec ==
  /\ InitDemo /\ [][NextDemo]_vars /\ Fairness
  /\ WF_vars(DemoInitialize) /\ WF_vars(DemoDestroy)
  /\ \A t \in Threads : WF_vars(DemoIteration(t))

TypeOK ==
  /\ indexList \in Seq(-1..MaxCap)
  /\ lock \in Threads \cup {NoThread}
  /\ pc \in [Threads -> {"idle", "g_lock", "g_test", "g_wait", "g_woken", "g_front",
                         "g_unlock", "r_lock", "r_push", "r_signal", "r_unlock",
                         "die", "exiting", "exited"}]
  /\ value \in [Threads -> -1..MaxCap]
  /\ arg \in [Threads -> -1..MaxCap]
  /\ held \in [Threads -> SUBSET (-1..MaxCap)]
  /\ capacity \in 0..MaxCap
  /\ phase \in {"constructed", "ready", "destroyed", "exiting", "exit1", "crashed"}
  /\ observing \in BOOLEAN
  /\ served \in Seq(-1..MaxCap)
  /\ released \in Seq(-1..MaxCap)
  /\ reported \subseteq Threads \cup {NoThread}
  /\ todo \in Nat

\* ------------------------------------------------------------ properties
\* how many times x occurs in list l
Occurrences(l, x) == Cardinality({k \in 1..Len(l) : l[k] = x})

\* how many times thread t has id x checked out: taken by pop_front and not
\* yet given back by push_back
CheckedOutCount(t, x) ==
    (IF x \in held[t] THEN 1 ELSE 0)
  + (IF pc[t] = "g_unlock" /\ value[t] = x THEN 1 ELSE 0)
  + (IF pc[t] \in {"r_lock", "r_push"} /\ arg[t] = x THEN 1 ELSE 0)

Holders(x) == {t \in Threads : CheckedOutCount(t, x) > 0}

\* ids a caller has been handed: those it holds and the one its call returns
HandedTo(t) == held[t] \cup (IF pc[t] = "g_unlock" THEN {value[t]} ELSE {})

\* C1 (conservation, I1 and I2): while the pool is initialized and callers
\* pass back only ids they hold, every id of [0, capacity) is exactly once in
\* the available list or checked out by exactly one caller, and the list
\* holds nothing but ids of [0, capacity), none of them twice.
C1_Conservation ==
  phase = "ready" =>
    /\ \A x \in Ids(capacity) :
         Occurrences(indexList, x)
           + Cardinality(Holders(x))
           + Cardinality({t \in Threads : CheckedOutCount(t, x) > 1}) = 1
    /\ \A k \in 1..Len(indexList) : indexList[k] \in Ids(capacity)
    /\ \A t \in Threads : held[t] \subseteq Ids(capacity)

\* an id has come back while another one is still checked out
C1_Witness ==
  /\ phase = "ready"
  /\ capacity = 2
  /\ indexList = <<1>>
  /\ \E t \in Threads : held[t] = {0} /\ pc[t] = "idle"

\* C2 (no double allocation): no two callers are handed the same id at the
\* same time, also with more callers than ids.
C2_NoDoubleAllocation ==
  \A t, u \in Threads : t # u => HandedTo(t) \cap HandedTo(u) = {}

\* every id is handed out, to different callers, and one more caller waits
C2_Witness ==
  /\ capacity = 2
  /\ \E t, u, w \in Threads :
       /\ held[t] = {0}
       /\ held[u] = {1}
       /\ pc[w] = "g_wait"

\* thread t is inside a getIndexBlocking call
InGet(t) == pc[t] \in {"g_lock", "g_test", "g_wait", "g_woken", "g_front", "g_unlock"}

\* C3 as stated (bounded liveness, P3): callers acquire only while holding
\* nothing and always pass back what they got; then under fair scheduling
\* every getIndexBlocking call eventually returns.
C3_EveryCallReturns ==
  \A t \in Threads : InGet(t) ~> ~InGet(t)

\* C3 as amended: under the same discipline and scheduling, every
\* getIndexBlocking call eventually returns unless callers keep starting new
\* getIndexBlocking calls for ever.
C3_ReturnsUnlessCallsForEver ==
  \/ []<><<\E u \in Threads : CallGetLeaf(u)>>_vars
  \/ \A t \in Threads : InGet(t) ~> ~InGet(t)

\* more callers than ids are acquiring: one holds the only id, two wait
C3_Witness ==
  /\ capacity = 1
  /\ \E t, u, w \in Threads :
       /\ t # u
       /\ held[w] = {0}
       /\ pc[t] = "g_wait"
       /\ pc[u] = "g_wait"

\* C4 (FIFO of identifiers, P4): ids leave the list in the order they
\* entered it: the ids handed out so far, followed by the ids still
\* available, are the initial filling followed by the ids passed back, in
\* that order.  So releases r1..rk into an empty pool are handed out as
\* r1..rk, and a pool of one id hands out 0 every time.
C4_FifoOfIds ==
  phase = "ready" =>
    served \o indexList = FillPool(<<>>, capacity) \o released

\* both ids taken, passed back as 1 then 0, and handed out again as 1 then 0
C4_Witness ==
  /\ phase = "ready"
  /\ capacity = 2
  /\ released = <<1, 0>>
  /\ served = <<0, 1, 1, 0>>

\* C5: a getIndexBlocking call reaches front()/pop_front() only with a
\* non-empty list and returns only an id of [0, capacity), never the initial
\* -1, also after a wake-up that finds the list empty.
C5_ReturnsOnlyTakenIds ==
  \A t \in Threads :
    /\ pc[t] = "g_front" => indexList # <<>>
    /\ pc[t] = "g_unlock" => value[t] \in Ids(capacity)
    /\ held[t] \subseteq Ids(capacity)

\* a waiter has been woken and the list is empty (a spurious wake-up, or
\* another thread took the id first)
C5_Witness ==
  /\ phase = "ready"
  /\ indexList = <<>>
  /\ \E t \in Threads : pc[t] = "g_woken" /\ lock = NoThread

\* C6: returnIndex(i) appends i to the list; its signal wakes exactly one
\* waiter when there are waiters and changes nothing when there are none,
\* the id staying at the tail of the list.
C6_SignalWakesOne ==
  [][\A t \in Threads :
       /\ (pc[t] = "r_push" /\ pc'[t] = "r_signal")
            => indexList' = Append(indexList, arg[t])
       /\ (pc[t] = "r_signal" /\ pc'[t] = "r_unlock") =>
            /\ indexList' = indexList
            /\ indexList[Len(indexList)] = arg[t]
            /\ IF Waiters = {}
                 THEN \A u \in Threads \ {t} : pc'[u] = pc[u]
                 ELSE \E w \in Waiters :
                        /\ pc'[w] = "g_woken"
                        /\ \A u \in Threads \ {t, w} : pc'[u] = pc[u]
    ]_vars

\* a signal has just been sent with two threads waiting: one is woken, the
\* other still sleeps
C6_Witness ==
  \E t, w, u \in Threads :
    /\ pc[t] = "r_unlock"
    /\ lock = t
    /\ pc[w] = "g_woken"
    /\ pc[u] = "g_wait"

\* a released id handed to a caller that found every id taken
ScenarioA(t) ==
  /\ phase = "ready"
  /\ InGet(t)
  /\ Len(released) >= 1
  /\ Calls <= capacity + 1

\* C7 (Scenario A for any N): the first N ids handed out are exactly
\* 0..N-1; no further call is handed an id while all N are out; once an id
\* x has been passed back, the (N+1)-th call returns (unless yet more calls
\* are started), and what it is handed is x.
C7_ScenarioA ==
  /\ [](phase = "ready" =>
          /\ Len(served) <= capacity + Len(released)
          /\ Len(served) >= capacity
               => {served[k] : k \in 1..capacity} = Ids(capacity)
          /\ Len(served) > capacity
               => Len(released) >= 1 /\ served[capacity + 1] = released[1])
  /\ \A t \in Threads :
       ScenarioA(t) ~> (~InGet(t) \/ Calls > capacity + 1)

\* both ids are out, a third caller has waited, id 1 has come back and the
\* waiter has been signalled
C7_Witness ==
  /\ phase = "ready"
  /\ capacity = 2
  /\ served = <<0, 1>>
  /\ released = <<1>>
  /\ indexList = <<1>>
  /\ \E t \in Threads : pc[t] = "g_woken"

\* C8: initializePool(n) leaves exactly 0, 1, .., n-1 in the list whatever
\* it held before, so as long as nothing has been passed back the ids
\* handed out followed by the ids available are 0, 1, .., n-1 ascending.
C8_InitialAscending ==
  (phase = "ready" /\ released = <<>>) =>
    served \o indexList = [k \in 1..capacity |-> k - 1]

\* a pool of two ids, both handed out with nothing passed back
C8_Witness ==
  /\ phase = "ready"
  /\ capacity = 2
  /\ released = <<>>
  /\ served = <<0, 1>>

\* C9 as stated (Scenario D): a returnIndex with an id out of range, never
\* checked out or already returned never leaves an out-of-range value or a
\* duplicate in the list.
C9_ListNeverCorrupted ==
  phase = "ready" => WellFormed(indexList)

\* C9 as amended: returnIndex checks nothing; whatever int it is given is at
\* the tail of the list when push_back is done, so an id out of range or
\* already available does leave the list out of range or with a duplicate.
C9_AppendsWhateverItIsGiven ==
  \A t \in Threads :
    pc[t] \in {"r_signal", "r_unlock"} =>
      /\ indexList # <<>>
      /\ indexList[Len(indexList)] = arg[t]
      /\ (arg[t] \notin Ids(capacity)
            \/ \E k \in 1..(Len(indexList) - 1) : indexList[k] = arg[t])
           => ~WellFormed(indexList)

\* returnIndex(0) was called while 0 was available: the call went through
\* to its unlock and the list holds 0 twice
C9_Witness ==
  /\ phase = "ready"
  /\ \E t \in Threads : pc[t] = "r_unlock" /\ arg[t] = 0
  /\ Occurrences(indexList, 0) = 2

\* every id is held by a caller that is inside another getIndexBlocking
Deadlocked ==
  /\ phase = "ready"
  /\ indexList = <<>>
  /\ \E t \in Threads : held[t] # {}
  /\ \A t \in Threads :
       /\ pc[t] \in {"idle", "g_lock", "g_test", "g_wait", "g_woken"}
       /\ held[t] # {} => pc[t] # "idle"

\* C10 (deadlock hazard): once every id is held by a caller that has entered
\* another getIndexBlocking, this stays so for ever: no id comes back, no
\* getIndexBlocking returns, no caller gets out.
C10_DeadlockIsStable ==
  [][Deadlocked =>
       /\ Deadlocked'
       /\ held' = held
       /\ indexList' = indexList
       /\ \A t \in Threads : InGet(t) => InGet(t)']_vars

\* capacity 2: two callers hold one id each and both sleep in a second
\* getIndexBlocking
C10_Witness ==
  /\ capacity = 2
  /\ \E t, u \in Threads :
       /\ t # u
       /\ Cardinality(held[t]) = 1
       /\ Cardinality(held[u]) = 1
       /\ held[t] \cup held[u] = {0, 1}
       /\ pc[t] = "g_wait"
       /\ pc[u] = "g_wait"
       /\ \A w \in Threads \ {t, u} : held[w] = {}

\* C11: destroyPool leaves the list empty whatever it held and however many
\* ids were checked out, and the initializePool that follows leaves exactly
\* 0 .. n-1 of the new n_thread, nothing of the earlier lifetime.
C11_TeardownDiscards ==
  /\ [](phase = "destroyed" => indexList = <<>>)
  /\ [][(phase = "destroyed" /\ phase' = "ready")
          => indexList' = [k \in 1..capacity' |-> k - 1]]_vars

\* a pool of one id set up after a pool of two ids was torn down
C11_Witness ==
  /\ phase = "destroyed"
  /\ capacity = 2
  /\ indexList = <<>>
  /\ ENABLED Initialize(1)

\* thread t is between MutexLock and MutexUnlock of one of the operations
InCritical(t) ==
  pc[t] \in {"g_test", "g_front", "g_unlock", "r_push", "r_signal", "r_unlock"}

\* C12 (mutual exclusion): a thread that is at a statement reading or
\* changing the list owns the lock, so at most one thread is there; a thread
\* asleep in CondWait, or woken and not yet back, does not own it.
C12_MutualExclusion ==
  /\ \A t \in Threads : InCritical(t) => lock = t
  /\ \A t \in Threads : pc[t] \in {"g_wait", "g_woken", "g_lock", "r_lock", "idle"} => lock # t
  /\ Cardinality({t \in Threads : InCritical(t)}) <= 1

\* one thread pushes under the lock, one sleeps in CondWait, one contends
C12_Witness ==
  \E t, u, w \in Threads :
    /\ pc[t] = "r_push"
    /\ lock = t
    /\ pc[u] = "g_wait"
    /\ pc[w] = "g_lock"

\* thread t is inside a returnIndex call
InReturn(t) == pc[t] \in {"r_lock", "r_push", "r_signal", "r_unlock"}

\* C13: a returnIndex call always completes, however many acquirers sleep
\* on the empty pool.
C13_ReturnIndexCompletes ==
  \A t \in Threads : InReturn(t) ~> pc[t] = "idle"

\* a caller enters returnIndex while the two other callers sleep in CondWait
C13_Witness ==
  \E t, u, w \in Threads :
    /\ u # w
    /\ pc[t] = "r_lock"
    /\ pc[u] = "g_wait"
    /\ pc[w] = "g_wait"

\* an id is available while an acquirer sleeps in CondWait
IdleIdWhileAsleep == indexList # <<>> /\ Waiters # {}

\* C14 as stated (no lost wake-up): whenever an id is available while an
\* acquirer sleeps, another thread has been signalled (woken) or is in
\* getIndexBlocking and has not yet checked the list.
C14_SomeoneWillCheck ==
  IdleIdWhileAsleep =>
    \E u \in Threads : pc[u] \in {"g_woken", "g_lock", "g_test"}

\* C14 as amended: whenever an id is available while an acquirer sleeps,
\* some thread is about to deal with it: one that was woken or is in
\* getIndexBlocking and has not yet checked the list, one that has checked
\* under the lock and is about to pop, or the returning thread that has
\* pushed the id and is about to signal; and under fair scheduling that
\* situation always ends.
C14_NoLostWakeup ==
  /\ [](IdleIdWhileAsleep =>
          \E u \in Threads :
            pc[u] \in {"g_woken", "g_lock", "g_test", "g_front", "r_signal"})
  /\ IdleIdWhileAsleep ~> ~IdleIdWhileAsleep

\* two acquirers slept, an id came back and the signal woke one of them:
\* the id is available, the other still sleeps
C14_Witness ==
  /\ indexList # <<>>
  /\ lock = NoThread
  /\ \E u, w \in Threads :
       /\ pc[u] = "g_woken"
       /\ pc[w] = "g_wait"
       /\ \A x \in Threads \ {u, w} : pc[x] = "idle"

\* C15 (callers are not served in arrival order): a signal may wake any of
\* the sleeping acquirers; while the mutex is free a caller that has just
\* entered getIndexBlocking may lock it as well as a woken waiter may; and a
\* woken waiter that finds the list empty goes back to sleep.
C15_NoCallerOrder ==
  /\ [](\A t \in Threads : pc[t] = "r_signal" =>
          \A w \in Waiters : ENABLED (RetSignal(t) /\ pc'[w] = "g_woken"))
  /\ [](\A u, w \in Threads :
          (pc[u] = "g_lock" /\ pc[w] = "g_woken" /\ lock = NoThread)
            => ENABLED GetLock(u) /\ ENABLED GetReacquire(w))
  /\ [][\A w \in Threads :
          (pc[w] = "g_test" /\ indexList = <<>> /\ pc'[w] # pc[w])
            => pc'[w] = "g_wait" /\ held' = held]_vars

\* pool of one id: a waiter has been woken for the id that came back, and
\* another caller already owns the lock and is about to pop that id
C15_Witness ==
  /\ capacity = 1
  /\ indexList = <<0>>
  /\ \E u, w \in Threads :
       /\ pc[w] = "g_woken"
       /\ pc[u] = "g_front"
       /\ lock = u

\* C16 (frame): the pop removes exactly the head and hands it to the
\* caller, the push appends exactly its argument, both leave the other
\* elements in order; no statement of the two operations changes what
\* another caller holds, changes the list otherwise, or changes capacity.
C16_Frame ==
  [][\A t \in Threads :
       /\ (pc[t] = "g_front" /\ pc'[t] = "g_unlock") =>
            /\ indexList = <<value'[t]>> \o indexList'
            /\ held' = held
       /\ (pc[t] = "r_push" /\ pc'[t] = "r_signal") =>
            /\ indexList' = indexList \o <<arg[t]>>
            /\ held' = held
       /\ (pc'[t] # pc[t] /\ phase' = phase) =>
            /\ capacity' = capacity
            /\ \A u \in Threads \ {t} : held'[u] = held[u]
            /\ pc[t] \notin {"g_front", "r_push"} => indexList' = indexList
    ]_vars

\* id 0 has just been pushed behind id 1, which was already available
C16_Witness ==
  /\ capacity = 2
  /\ indexList = <<1, 0>>
  /\ \E t \in Threads : pc[t] = "r_signal" /\ arg[t] = 0

\* C17 (synchronization failures are fatal): a thread whose pthread call
\* reported an error has printed the report and never executes another
\* statement of the pool operation, and once the process has ended after a
\* report it has ended with exit status 1.
C17_SyncFailureFatal ==
  /\ \A t \in Threads : t \in reported => pc[t] \in {"die", "exiting", "exited"}
  /\ (reported # {} /\ \A t \in Threads : pc[t] = "exited") => phase = "exit1"

\* C18 (demo workload of main): every loop iteration acquires while it
\* holds nothing, holds at most one id, and passes back the id it got; so
\* every acquire returns, the program reaches thread_id_pool_destroy, and
\* at that step every id of the pool is in the list and none is checked out.
\* (The destroy step happens once all 40 iterations have been started and
\* every worker is outside the pool holding nothing, so reaching it means
\* that each getIndexBlocking returned and each id was passed back.)
C18_DemoRunsToDestroy ==
  /\ [](\A t \in Threads : InGet(t) => held[t] = {})
  /\ [](\A t \in Threads : Cardinality(held[t]) <= 1)
  /\ [][\A t \in Threads : (pc[t] = "idle" /\ pc'[t] = "r_lock")
          => held[t] = {arg'[t]} /\ held'[t] = {}]_vars
  /\ <>(phase = "destroyed")
  /\ [][(phase = "ready" /\ phase' = "destroyed") =>
          /\ todo = 0
          /\ Len(indexList) = n_thread
          /\ \A x \in Ids(n_thread) : Occurrences(indexList, x) = 1
          /\ \A t \in Threads : held[t] = {} /\ pc[t] = "idle"]_vars

\* all 40 iterations are over, the ids came back in the other order and
\* main is about to destroy the pool
C18_Witness ==
  /\ todo = 0
  /\ phase = "ready"
  /\ capacity = n_thread
  /\ indexList = <<1, 0>>
  /\ ENABLED DemoDestroy

====
